---------------------------- MODULE Spec2Model ----------------------------
(***************************************************************************)
(* The ordered concurrent map of src/Python/Threading/sample.py            *)
(* (run_in_threads) and src/Python/MultiProcessing/sample.py               *)
(* (run_in_processes): one call of either entry point, the executor's      *)
(* workers running slow_square for each submitted input, and the caller's  *)
(* as_completed loop that writes each outcome back by index.               *)
(*                                                                         *)
(* Python's 0-based index idx is position idx + 1 of the sequences here.   *)
(* A Python value that is either None or an int is modelled as a sequence  *)
(* of integers: None is << >>, the int v is << v >>.                       *)
(***************************************************************************)
EXTENDS Integers, Sequences, FiniteSets

VARIABLES
    mode,          \* which entry point was called: "threads" or "processes"
    values,        \* argument `values`
    time_limit,    \* argument `time_limit` (run_in_threads only)
    raises,        \* per input: the exception its worker call is made to raise, or "ok"
    pc,            \* position of the caller
    pool,          \* the executor `ex`: "none", "open", "shutdown"
    submitted,     \* number of ex.submit calls made so far
    fstate,        \* per future: "unsubmitted", "pending", "running", "finished"
    elapsed,       \* per future: seconds its task has been executing
    yielded,       \* futures as_completed has already handed to the loop body
    result_bound,  \* whether the local name `result` is bound
    result,        \* the local `result`
    results,       \* the list `results`
    writes,        \* per index: how often `results[idx] = result` has stored there
    pbar_n,        \* tqdm's counter pbar.n
    pbar_state,    \* "none", "open", "closed"
    exc,           \* exception propagating out of the call, or "none"
    table,         \* the DataFrame returned, << >> before the return
    run,           \* number of the call on these inputs (1 or 2)
    prev           \* outcome of the first call once a second one was started

vars == << mode, values, time_limit, raises, pc, pool, submitted, fstate,
           elapsed, yielded, result_bound, result, results, writes,
           pbar_n, pbar_state, exc, table, run, prev >>

-----------------------------------------------------------------------------
(* Bounds of the model and constants of the program *)

MaxLen == 2

MaxWorkers == 5

SleepBase == 6

MainTimeLimit == 3

TimeLimits == {1, MainTimeLimit}

InputValues == {2, 5, 7}

MainValues == << 1, 2, 3, 4, 5 >>

LongValues == [i \in 1 .. (MaxWorkers + 1) |-> 5]

ExceptionKinds == {"Exception", "TimeoutError"}

None == << >>

Some(v) == << v >>

-----------------------------------------------------------------------------
(* slow_square and the futures *)

Returns(v) == [kind |-> "value", val |-> Some(v)]

Raises(k) == [kind |-> k, val |-> None]

SleepTime(x) == SleepBase - x

\* time.sleep raises ValueError for a negative length, otherwise x * x is returned
slow_square(x) ==
    IF SleepTime(x) < 0 THEN Raises("Exception") ELSE Returns(x * x)

\* what the worker's call slow_square(values[i]) ends with. raises[i] names
\* the exception the call raises for an input it cannot square: "Exception"
\* for one caught only by `except Exception` (a TypeError of 6 - x, say),
\* "TimeoutError" for the class imported on line 2 and caught on line 50
TaskOutcome(i) ==
    IF raises[i] # "ok" THEN Raises(raises[i]) ELSE slow_square(values[i])

\* seconds the worker's call for input i executes before it ends
Duration(i) ==
    IF raises[i] # "ok" \/ SleepTime(values[i]) < 0 THEN 0 ELSE SleepTime(values[i])

Indices == 1 .. Len(values)

Running == {i \in Indices : fstate[i] = "running"}

Pending == {i \in Indices : fstate[i] = "pending"}

Finished == {i \in Indices : fstate[i] = "finished"}

\* Future.result(timeout): the outcome of a finished future, TimeoutError for
\* one that does not finish within the timeout
FutureResult(i, timeout) ==
    IF fstate[i] = "finished" THEN TaskOutcome(i) ELSE Raises("TimeoutError")

AsCompleted_Again == Finished

\* the futures the as_completed iterator can hand out next
AsCompleted == Finished \ yielded

Exhausted_NoneReady == AsCompleted = {}

\* as_completed stops once it has handed out every future it was given
Exhausted == yielded = Indices

Allocate_OneMore(vals) == [i \in 1 .. (Len(vals) + 1) |-> None]

\* [None] * len(values)
Allocate(vals) == [i \in 1 .. Len(vals) |-> None]

WorkerFree_Always == TRUE

\* a worker of the pool is idle (or may still be spawned)
WorkerFree == Cardinality(Running) < MaxWorkers

ShutdownDone_NoWait == TRUE

\* shutdown(wait=True) returns once every submitted work item has been run
ShutdownDone == \A i \in Indices : fstate[i] \in {"unsubmitted", "finished"}

\* pd.DataFrame({"input": values, "output": results}); columns of different
\* lengths make pandas raise ValueError, modelled as no table
DataFrameOk(vals, res) == Len(vals) = Len(res)

DataFrame(vals, res) ==
    [i \in 1 .. Len(vals) |-> [input |-> vals[i], output |-> res[i]]]

ThreadsHandler_KeepsOnError(out) ==
    IF out.kind = "value" THEN << TRUE, out.val >>
    ELSE << result_bound, result >>

\* the try/except of run_in_threads: << result is bound, result >> after it
ThreadsHandler(out) ==
    IF out.kind = "value" THEN << TRUE, out.val >>
    ELSE IF out.kind = "TimeoutError" THEN << result_bound, result >>
    ELSE << TRUE, None >>

\* the try/except of run_in_processes
ProcessesHandler(out) ==
    IF out.kind = "value" THEN << TRUE, out.val >> ELSE << TRUE, None >>

-----------------------------------------------------------------------------
(* Initial states: the arguments of the call *)

AtMostOneRaises(r) == Cardinality({i \in DOMAIN r : r[i] # "ok"}) <= 1

InitArgs ==
    \/ /\ \E n \in 0 .. MaxLen : values \in [1 .. n -> InputValues]
       /\ raises \in [DOMAIN values -> {"ok"} \cup ExceptionKinds]
       /\ time_limit \in TimeLimits
    \/ /\ values = MainValues
       /\ raises \in [DOMAIN values -> {"ok"} \cup ExceptionKinds]
       /\ AtMostOneRaises(raises)
       /\ time_limit = MainTimeLimit
    \/ /\ values = LongValues
       /\ raises = [i \in DOMAIN values |-> "ok"]
       /\ time_limit = MainTimeLimit

Fresh ==
    /\ pc = "start"
    /\ pool = "none"
    /\ submitted = 0
    /\ fstate = [i \in Indices |-> "unsubmitted"]
    /\ elapsed = [i \in Indices |-> 0]
    /\ yielded = {}
    /\ result_bound = FALSE
    /\ result = None
    /\ results = << >>
    /\ writes = [i \in Indices |-> 0]
    /\ pbar_n = 0
    /\ pbar_state = "none"
    /\ exc = "none"
    /\ table = << >>

Init ==
    /\ mode \in {"threads", "processes"}
    /\ InitArgs
    /\ Fresh
    /\ run = 1
    /\ prev = [pc |-> "none", table |-> << >>]

-----------------------------------------------------------------------------
(* The caller *)

args == << mode, values, time_limit, raises, run, prev >>

\* results = [None] * len(values); with ...PoolExecutor(max_workers=5) as ex
Call ==
    /\ pc = "start"
    /\ results' = Allocate(values)
    /\ pool' = "open"
    /\ pc' = "submit"
    /\ UNCHANGED << args, writes, submitted, fstate, elapsed, yielded, result_bound,
                    result, pbar_n, pbar_state, exc, table >>

\* one ex.submit(slow_square, val) of the dict comprehension
Submit ==
    /\ pc = "submit"
    /\ submitted < Len(values)
    /\ submitted' = submitted + 1
    /\ fstate' = [fstate EXCEPT ![submitted + 1] = "pending"]
    /\ UNCHANGED << args, writes, pc, pool, elapsed, yielded, result_bound, result,
                    results, pbar_n, pbar_state, exc, table >>

\* pbar = tqdm(total=len(values)); the for loop is entered
CreatePbar ==
    /\ pc = "submit"
    /\ submitted = Len(values)
    /\ pbar_state' = "open"
    /\ pc' = "loop"
    /\ UNCHANGED << args, writes, pool, submitted, fstate, elapsed, yielded,
                    result_bound, result, results, pbar_n, exc, table >>

\* lines 60-63 (57-60) after the handler left << b, r >> in `result`
StoreResult(i, b, r) ==
    /\ yielded' = yielded \cup {i}
    /\ result_bound' = b
    /\ result' = r
    /\ IF b
       THEN /\ results' = [results EXCEPT ![i] = r]
            /\ writes' = [writes EXCEPT ![i] = @ + 1]
            /\ pbar_n' = pbar_n + 1
            /\ UNCHANGED << pc, pbar_state, exc >>
       ELSE \* results[idx] = result raises UnboundLocalError; finally: pbar.close()
            /\ exc' = "UnboundLocalError"
            /\ pbar_state' = "closed"
            /\ pc' = "exit"
            /\ UNCHANGED << results, writes, pbar_n >>
    /\ UNCHANGED << args, pool, submitted, fstate, elapsed, table >>

\* one iteration of the loop of run_in_threads
CollectThreads(i) ==
    /\ pc = "loop"
    /\ mode = "threads"
    /\ i \in AsCompleted
    /\ LET h == ThreadsHandler(FutureResult(i, time_limit))
       IN  StoreResult(i, h[1], h[2])

\* one iteration of the loop of run_in_processes
CollectProcesses(i) ==
    /\ pc = "loop"
    /\ mode = "processes"
    /\ i \in AsCompleted
    /\ LET h == ProcessesHandler(FutureResult(i, 0))
       IN  StoreResult(i, h[1], h[2])

\* as_completed is exhausted; finally: pbar.close()
LoopEnd ==
    /\ pc = "loop"
    /\ Exhausted
    /\ pbar_state' = "closed"
    /\ pc' = "exit"
    /\ UNCHANGED << args, writes, pool, submitted, fstate, elapsed, yielded,
                    result_bound, result, results, pbar_n, exc, table >>

\* the with block's __exit__: ex.shutdown(wait=True), then the exception, if
\* any, leaves the call
ExitPool ==
    /\ pc = "exit"
    /\ ShutdownDone
    /\ pool' = "shutdown"
    /\ pc' = IF exc = "none" THEN "return" ELSE "raised"
    /\ UNCHANGED << args, writes, submitted, fstate, elapsed, yielded, result_bound,
                    result, results, pbar_n, pbar_state, exc, table >>

\* return pd.DataFrame({"input": values, "output": results})
Return ==
    /\ pc = "return"
    /\ IF DataFrameOk(values, results)
       THEN /\ table' = DataFrame(values, results)
            /\ pc' = "returned"
            /\ exc' = exc
       ELSE /\ table' = table
            /\ pc' = "raised"
            /\ exc' = "ValueError"
    /\ UNCHANGED << args, writes, pool, submitted, fstate, elapsed, yielded,
                    result_bound, result, results, pbar_n, pbar_state >>

-----------------------------------------------------------------------------
(* The workers of the pool *)

caller == << pc, pool, submitted, yielded, result_bound, result, results,
             writes, pbar_n, pbar_state, exc, table >>

\* an idle worker takes the oldest queued work item
WorkerStart(i) ==
    /\ pool = "open"
    /\ i \in Pending
    /\ \A j \in Pending : i <= j
    /\ WorkerFree
    /\ fstate' = [fstate EXCEPT ![i] = "running"]
    /\ UNCHANGED << args, caller, elapsed >>

\* one second passes for every task that is still sleeping
Tick ==
    /\ \E i \in Running : elapsed[i] < Duration(i)
    /\ elapsed' = [i \in Indices |->
                     IF i \in Running /\ elapsed[i] < Duration(i)
                     THEN elapsed[i] + 1 ELSE elapsed[i]]
    /\ UNCHANGED << args, caller, fstate >>

\* the worker's call ends and the future is set to its outcome
WorkerFinish(i) ==
    /\ i \in Running
    /\ elapsed[i] >= Duration(i)
    /\ fstate' = [fstate EXCEPT ![i] = "finished"]
    /\ UNCHANGED << args, caller, elapsed >>

-----------------------------------------------------------------------------

Next ==
    \/ Call
    \/ Submit
    \/ CreatePbar
    \/ \E i \in Indices : CollectThreads(i)
    \/ \E i \in Indices : CollectProcesses(i)
    \/ LoopEnd
    \/ ExitPool
    \/ Return
    \/ \E i \in Indices : WorkerStart(i)
    \/ Tick
    \/ \E i \in Indices : WorkerFinish(i)

Spec == Init /\ [][Next]_vars

\* the caller makes a second call, of entry point m, on the same arguments
Restart(m) ==
    /\ run = 1
    /\ pc \in {"returned", "raised"}
    /\ prev' = [pc |-> pc, table |-> table]
    /\ mode' = m
    /\ UNCHANGED << values, time_limit, raises >>
    /\ run' = 2
    /\ pc' = "start"
    /\ pool' = "none"
    /\ submitted' = 0
    /\ fstate' = [i \in Indices |-> "unsubmitted"]
    /\ elapsed' = [i \in Indices |-> 0]
    /\ yielded' = {}
    /\ result_bound' = FALSE
    /\ result' = None
    /\ results' = << >>
    /\ writes' = [i \in Indices |-> 0]
    /\ pbar_n' = 0
    /\ pbar_state' = "none"
    /\ exc' = "none"
    /\ table' = << >>

\* the same call made a second time on the same arguments
Rerun == Restart(mode)

NextTwice == Next \/ Rerun

SpecTwice == Init /\ [][NextTwice]_vars

OtherMode == IF mode = "threads" THEN "processes" ELSE "threads"

\* the other entry point called on the same arguments
RerunOther == Restart(OtherMode)

NextBoth == Next \/ RerunOther

SpecBoth == Init /\ [][NextBoth]_vars

\* the caller's thread
Caller ==
    \/ Call
    \/ Submit
    \/ CreatePbar
    \/ \E i \in Indices : CollectThreads(i)
    \/ \E i \in Indices : CollectProcesses(i)
    \/ LoopEnd
    \/ ExitPool
    \/ Return

\* the pool's workers and the time their tasks sleep
Workers ==
    \/ \E i \in Indices : WorkerStart(i)
    \/ Tick
    \/ \E i \in Indices : WorkerFinish(i)

\* the caller's thread keeps running, and so do the workers: every task
\* that is started ends its sleep and finishes
SpecFair == Init /\ [][Next]_vars /\ WF_vars(Caller) /\ WF_vars(Workers)

-----------------------------------------------------------------------------
(* The claims *)

\* the value the table is to show for input i: its square, None if its task raised
OutcomeValue(i) == TaskOutcome(i).val

Outputs == [i \in 1 .. Len(table) |-> table[i].output]

\* C1: the returned table has one row per input, and row i pairs values[i]
\* with the outcome of the task submitted for values[i], whatever the order
\* in which the tasks completed.
C1_RowsPairedByIndex ==
    pc = "returned" =>
        /\ Len(table) = Len(values)
        /\ \A i \in Indices :
              /\ table[i].input = values[i]
              /\ table[i].output = OutcomeValue(i)

C3_SlowTaskIsNone ==
    (pc = "returned" /\ mode = "threads") =>
        \A i \in Indices : elapsed[i] > time_limit => table[i].output = None

\* C4: no error or timeout of a task makes the call raise: the call returns
\* a table, and every task has been collected when it does.
C4_NoErrorEscapes ==
    /\ pc # "raised"
    /\ exc = "none"
    /\ pc = "returned" => yielded = Indices

\* C5: in run_in_threads, once the loop body has processed a future whose
\* result() raised TimeoutError, results[idx] holds None (and the body did
\* not fail), in the first iteration as in later ones.
C5_TimeoutStoresNone ==
    \A i \in yielded :
        (mode = "threads" /\ TaskOutcome(i).kind = "TimeoutError") =>
            /\ exc = "none"
            /\ results[i] = None

\* C6: a second call on the same inputs, with the same outcome of each task,
\* ends as the first one did and returns the same table, whatever the two
\* completion orders.
C6_SameTableTwice ==
    (run = 2 /\ pc \in {"returned", "raised"}) =>
        /\ prev.pc = pc
        /\ prev.table = table

\* C7: the call returns only after every submitted task has finished and
\* its future has been processed by the loop.
C7_ReturnsAfterAll ==
    pc \in {"return", "returned"} =>
        /\ submitted = Len(values)
        /\ \A i \in Indices : fstate[i] = "finished" /\ i \in yielded

\* C7 witness: a call with at least two inputs has returned
C7_Witness ==
    /\ pc = "returned"
    /\ Len(values) >= 2
    /\ yielded = Indices

\* C8: once the call has exited, by returning or by an exception, the pool
\* is shut down and no task is queued or executing.
C8_PoolReleased ==
    pc \in {"return", "returned", "raised"} =>
        /\ pool = "shutdown"
        /\ Running = {}
        /\ Pending = {}

\* C8 witness: the call has exited by an exception that escaped the loop
\* while futures were still uncollected, and their tasks have all been run
C8_Witness ==
    /\ pc = "raised"
    /\ pool = "shutdown"
    /\ \E i \in Indices : i \notin yielded /\ fstate[i] = "finished"

\* C9: never more than max_workers tasks execute at once, and a queued task
\* starts only in a state where fewer than max_workers are executing.
C9_PoolBound ==
    /\ [](Cardinality(Running) <= MaxWorkers)
    /\ [][\A i \in Indices :
            (fstate[i] = "pending" /\ fstate'[i] = "running")
                => Cardinality(Running) < MaxWorkers]_vars

\* C9 witness: more inputs than workers, all workers busy, one task queued
C9_Witness ==
    /\ Len(values) > MaxWorkers
    /\ Cardinality(Running) = MaxWorkers
    /\ Pending # {}

\* C10 as stated: for an empty input no pool is created, nothing is
\* submitted, and the returned table has no rows.
C10_EmptyWithoutPool ==
    Len(values) = 0 =>
        /\ pool = "none"
        /\ submitted = 0
        /\ pc # "raised"
        /\ pc = "returned" => table = << >>

\* C10 amended: for an empty input the executor is created and shut down
\* again, but nothing is submitted, no worker runs a task, the loop body is
\* never entered, and the call returns a table without rows.
C10_EmptyReturnsEmpty ==
    Len(values) = 0 =>
        /\ submitted = 0
        /\ pbar_n = 0
        /\ pc # "raised"
        /\ pc \in {"submit", "loop", "exit"} => pool = "open"
        /\ pc = "returned" => (table = << >> /\ pool = "shutdown")

\* C10 witness: a call on the empty sequence has returned
C10_Witness ==
    /\ Len(values) = 0
    /\ pc = "returned"
    /\ pool = "shutdown"

\* the number of slots of `results` that have been stored into
SlotsWritten == Cardinality({i \in Indices : writes[i] >= 1})

\* C11: once allocated, `results` has the length of `values`; no slot is
\* stored into twice; when the call returns every slot has been stored into
\* exactly once; and nothing is stored after the table is returned.
C11_EachSlotWrittenOnce ==
    /\ [](/\ pc # "start" => Len(results) = Len(values)
          /\ pc = "returned" => Len(table) = Len(values)
          /\ \A i \in Indices : writes[i] <= 1
          /\ pc \in {"return", "returned"} => \A i \in Indices : writes[i] = 1)
    /\ [][pc = "returned" => (results' = results /\ writes' = writes)]_vars

\* C11 witness: run_in_processes has returned for [1,2,3,4,5], every slot
\* stored into once, the future of the first input collected last
C11_Witness ==
    /\ pc = "returned"
    /\ mode = "processes"
    /\ values = MainValues
    /\ \A i \in Indices : writes[i] = 1
    /\ result = Some(1)

\* C12: the progress counter never decreases, counts every future the loop
\* body has processed (success, error or timeout), equals the number of
\* slots written so far, and equals the number of inputs at the return.
C12_CounterCountsProcessed ==
    /\ [](/\ pbar_n = Cardinality(yielded)
          /\ pbar_n = SlotsWritten
          /\ pc = "returned" => pbar_n = Len(values))
    /\ [][pbar_n' >= pbar_n /\ pbar_n' <= pbar_n + 1]_vars

\* C13: when no task is made to raise, the returned table holds the square
\* of every input, inputs greater than 6 included.
C13_AllSquares ==
    (pc = "returned" /\ \A i \in Indices : raises[i] = "ok") =>
        \A i \in Indices : table[i].output = Some(values[i] * values[i])

\* C14: when run_in_threads has ended and the result of some task raised
\* TimeoutError, every other task has been executed to its end and its
\* future collected, a successful one into its own slot.
C14_TimeoutIsolated ==
    (mode = "threads" /\ pc \in {"returned", "raised"}) =>
        \A i \in Indices : TaskOutcome(i).kind = "TimeoutError" =>
            \A j \in Indices \ {i} :
                /\ fstate[j] = "finished"
                /\ j \in yielded
                /\ TaskOutcome(j).kind # "TimeoutError"
                      => results[j] = OutcomeValue(j)

\* C15: called on the same arguments, with the same outcome of each task,
\* the other entry point ends the same way and returns the same table.
C15_SameAsOtherEntryPoint ==
    (run = 2 /\ pc \in {"returned", "raised"}) =>
        prev = [pc |-> pc, table |-> table]

\* C16: with the caller and the workers scheduled fairly, so that every
\* task finishes, the call eventually returns its table.
C16_EventuallyReturns == <>(pc = "returned")

\* the call eventually ends, by returning or by raising
EventuallyEnds == <>(pc \in {"returned", "raised"})

=============================================================================
